---------------------------- MODULE Spec2Model ----------------------------
(***************************************************************************)
(* cc-sync: a secondary git repository of Claude session files that        *)
(* follows the checkouts of a primary repository (cc-checkout-sync) and is *)
(* backed up to a single remote bundle object (cc-sync).                   *)
(*                                                                         *)
(* The program drives git through subprocess calls.  The git commands it   *)
(* issues are modelled by what git does on the state the program can       *)
(* build: commits, branch refs, the stash list and the working tree.       *)
(***************************************************************************)
EXTENDS Integers, Sequences, FiniteSets, TLC

(***************************************************************************)
(* Bounds of the model.                                                    *)
(***************************************************************************)
\* Checkout events (calls of the hook), over a run.
MaxEvents == 2
\* Commits of session files (commit_sessions), over a run.
MaxRecords == 1
\* Largest max_depth handed to find_context_for_commit_or_ancestor.
MaxDepth == 4
\* Merge commits in the primary history the ancestor walk runs over.
MaxMerges == 1
\* Runs of the cc-sync command, and background pushes started, over a run.
MaxSyncs == 2
MaxAsyncs == 1

\* Primary-project commit ids (40-digit shas in the program).
Primary == {"X", "Y"}
\* The primary commits of a history the ancestor walk runs over.
History == {"A", "B", "C", "D"}
\* Names a branch can have.
BranchNames == {"main", "feat"}
\* What get_main_repo_branch can return: a name, "HEAD" when the primary
\* project is detached, "" for None (git failed).
MainBranches == BranchNames \cup {"HEAD", ""}
\* The branch `git init` starts on (init.defaultBranch).
DefaultBranches == BranchNames
\* Session files of the store and the contents a file can have; 0 is "no
\* such file" and 3 a file left with conflict markers.
Paths == {"a"}
Content == 0..2
Machines == {"A", "B"}
\* What the sessions of a machine write, where two machines are at work.
Written(m) == IF m = "A" THEN 1 ELSE 2

VARIABLES
    commits,     \* the commit objects made so far, oldest first (id = index)
    store,       \* per machine: the secondary store
    ck,          \* the sync_checkout call of machine "A": position, arguments, locals
    used,        \* how much of the bounds the run has used
    primary,     \* the primary project's history: commit -> its parents, in order
    walk,        \* the find_context_for_commit_or_ancestor call: arguments, locals
    remote,      \* the bundle object in the bucket
    sy           \* per machine: the runs of the sync functions, foreground and background

vars == <<commits, store, ck, used, primary, walk, remote, sy>>

walkVars == <<primary, walk>>

syncVars == <<remote, sy>>

-----------------------------------------------------------------------------
(***************************************************************************)
(* git, as far as the program uses it.                                     *)
(***************************************************************************)
EmptyTree == [p \in Paths |-> 0]

NoStore ==
    [init |-> FALSE, head |-> "main", br |-> [b \in BranchNames |-> 0],
     wt |-> EmptyTree, stash |-> <<>>, unmerged |-> FALSE]

\* No bundle object in the bucket.
NoBundle == [exists |-> FALSE, br |-> [b \in BranchNames |-> 0], head |-> "main"]

\* The threads of a machine that run sync functions: the command in the
\* foreground, the thread of push_to_remote_async in the background.
Threads == {"fg", "bg"}

\* The three SUPABASE_* environment variables, each set to a value, set to
\* the empty string or not set.
Options == {"url", "serviceKey", "bucket"}

FullConfig == [o \in Options |-> "set"]

NoConfig == [o \in Options |-> "unset"]

\* The environments with every variable set or with one of them empty or
\* not set.
Envs ==
    {FullConfig} \cup
    {[FullConfig EXCEPT ![o] = v] : o \in Options, v \in {"empty", "unset"}}

IdleRun ==
    [pc |-> "idle", op |-> "none", cfg |-> FullConfig, tmp |-> FALSE, snap |-> NoBundle,
     pre |-> NoStore, pulled |-> "", why |-> "", uploaded |-> FALSE, result |-> 0]

NothingUsed == [events |-> 0, records |-> 0, syncs |-> 0, asyncs |-> 0]

NoHistory == [c \in History |-> <<>>]

NoWalk ==
    [pc |-> "off", main_sha |-> "D", max_depth |-> 0, visited |-> {},
     to_check |-> <<>>, depth |-> 0, queried |-> <<>>, result |-> 0]

SetMax(S) == CHOOSE x \in S : \A y \in S : y <= x

SeqToSet(q) == {q[i] : i \in 1..Len(q)}

\* The commit HEAD names, 0 on an unborn branch.
HeadCommit(s) == s.br[s.head]

HeadTree(cs, s) == IF HeadCommit(s) = 0 THEN EmptyTree ELSE cs[HeadCommit(s)].tree

RECURSIVE Reach(_, _)
\* The commits reachable from the commits in tips over parent links.
Reach(cs, tips) ==
    LET next == tips \cup UNION {SeqToSet(cs[c].parents) : c \in tips}
    IN  IF next = tips THEN tips ELSE Reach(cs, next)

\* What --all names: every branch, and refs/stash (the newest stash entry only).
AllRefs(s) ==
    ({s.br[b] : b \in BranchNames} \ {0})
        \cup (IF s.stash = <<>> THEN {} ELSE {s.stash[1].w})

BranchTips(s) == {s.br[b] : b \in BranchNames} \ {0}

Fail(cs, s) == [ok |-> FALSE, cs |-> cs, s |-> s]

\* git status --porcelain prints something.
Dirty(cs, s) == s.wt # HeadTree(cs, s) \/ s.unmerged

(***************************************************************************)
(* git stash push -u -m "sessions-for-<tag>".  Three commits are made: the *)
(* untracked-files commit (no parent, the untracked files only), the index *)
(* commit and the WIP commit.  The first two carry HEAD's subject line in  *)
(* their own subject, the third carries the message.  Ids are given in the *)
(* order `git log` lists the three when their dates tie: WIP, index,       *)
(* untracked.  Afterwards the working tree is HEAD's tree.                 *)
(***************************************************************************)
git_stash_push(cs, s, tag) ==
    IF s.unmerged \/ HeadCommit(s) = 0 THEN Fail(cs, s)
    ELSE
      LET h  == HeadCommit(s)
          ht == cs[h].tree
          n  == Len(cs)
          uc == [kind |-> "untracked", refs |-> cs[h].subj, subj |-> cs[h].subj,
                 tree |-> [p \in Paths |-> IF ht[p] = 0 THEN s.wt[p] ELSE 0],
                 parents |-> <<>>]
          ic == [kind |-> "index", refs |-> cs[h].subj, subj |-> cs[h].subj,
                 tree |-> ht, parents |-> <<h>>]
          wc == [kind |-> "wip", refs |-> {tag}, subj |-> {tag},
                 tree |-> [p \in Paths |-> IF ht[p] # 0 THEN s.wt[p] ELSE 0],
                 parents |-> <<h, n + 2, n + 1>>]
      IN  [ok |-> TRUE,
           cs |-> cs \o <<uc, ic, wc>>,
           s  |-> [s EXCEPT !.wt = ht,
                            !.stash = <<[tag |-> tag, w |-> n + 3]>> \o s.stash]]

RemoveAt(q, k) == [i \in 1..(Len(q) - 1) |-> IF i < k THEN q[i] ELSE q[i + 1]]

(***************************************************************************)
(* git stash pop stash@{k-1}.  The stashed tracked changes are merged      *)
(* three-way (base: the commit stashed on; ours: HEAD; theirs: the WIP     *)
(* tree), then the stashed untracked files are written back unless a file  *)
(* of that name exists.  The entry is dropped only when nothing went       *)
(* wrong.  A file the merge has to write that has local changes makes git  *)
(* refuse before touching anything.                                        *)
(***************************************************************************)
git_stash_pop(cs, s, k) ==
    LET w   == s.stash[k].w
        bt  == cs[cs[w].parents[1]].tree
        tt  == cs[w].tree
        ut  == cs[cs[w].parents[3]].tree
        ht  == HeadTree(cs, s)
        touched(p)  == tt[p] # bt[p] /\ ht[p] # tt[p]
        refused     == \E p \in Paths : touched(p) /\ s.wt[p] # ht[p]
        conflict(p) == tt[p] # bt[p] /\ ht[p] # bt[p] /\ ht[p] # tt[p]
        merged == [p \in Paths |->
                     IF tt[p] = bt[p] \/ ht[p] = tt[p] THEN s.wt[p]
                     ELSE IF ht[p] = bt[p] THEN tt[p]
                     ELSE IF ht[p] = 0 THEN tt[p]
                     ELSE IF tt[p] = 0 THEN s.wt[p]
                     ELSE 3]
        collide(p) == ut[p] # 0 /\ merged[p] # 0
        restored == [p \in Paths |->
                       IF ut[p] # 0 /\ merged[p] = 0 THEN ut[p] ELSE merged[p]]
        anyConflict == \E p \in Paths : conflict(p)
        good == ~anyConflict /\ ~(\E p \in Paths : collide(p))
    IN  IF s.unmerged \/ refused THEN Fail(cs, s)
        ELSE [ok |-> good,
              cs |-> cs,
              s  |-> [s EXCEPT !.wt = restored,
                               !.unmerged = anyConflict,
                               !.stash = IF good THEN RemoveAt(s.stash, k) ELSE s.stash]]

(***************************************************************************)
(* git checkout -B <b> <c>.  A path whose content is the same in HEAD and  *)
(* in c keeps what the working tree holds; a path that differs is written  *)
(* from c when the working tree has HEAD's version or has lost the file,   *)
(* and otherwise (a local change, or an untracked file in the way) git     *)
(* refuses and changes nothing.  c = -1 stands for a string that names no  *)
(* commit.                                                                 *)
(***************************************************************************)
git_checkout_B(cs, s, b, c) ==
    LET ht == HeadTree(cs, s)
        tt == cs[c].tree
        blocked(p) == /\ ht[p] # tt[p]
                      /\ s.wt[p] # ht[p]
                      /\ ~(ht[p] # 0 /\ s.wt[p] = 0)
    IN  IF c \notin 1..Len(cs) \/ s.unmerged THEN Fail(cs, s)
        ELSE IF \E p \in Paths : blocked(p) THEN Fail(cs, s)
        ELSE [ok |-> TRUE,
              cs |-> cs,
              s  |-> [s EXCEPT !.head = b,
                               !.br[b] = c,
                               !.wt = [p \in Paths |->
                                         IF ht[p] = tt[p] THEN s.wt[p] ELSE tt[p]]]]

\* git clean -fd: every file HEAD does not track goes.
git_clean(cs, s) ==
    [s EXCEPT !.wt = [p \in Paths |-> IF HeadTree(cs, s)[p] = 0 THEN 0 ELSE s.wt[p]]]

\* git log --all --grep <sha> --format=%H -n 1: the newest commit reachable
\* from any ref whose message contains sha; 0 when the output is empty.
git_log_all_grep(cs, s, sha) ==
    LET hits == {c \in Reach(cs, AllRefs(s)) : sha \in cs[c].refs}
    IN  IF hits = {} THEN 0 ELSE SetMax(hits)

\* The commits without parent reachable from HEAD.
Roots(cs, s) == {c \in Reach(cs, {HeadCommit(s)}) : cs[c].parents = <<>>}

-----------------------------------------------------------------------------
(***************************************************************************)
(* core/git_ops.py.  A function that runs git takes `fault`: the git       *)
(* process exits non-zero for a reason outside the model (a held lock, a   *)
(* full disk) and the function takes its except branch.                    *)
(***************************************************************************)
is_claude_repo_initialized(s) == s.init

has_uncommitted_changes(cs, s) == is_claude_repo_initialized(s) /\ Dirty(cs, s)

stash_sessions(cs, s, tag, fault) ==
    IF ~is_claude_repo_initialized(s) THEN Fail(cs, s)
    ELSE IF ~has_uncommitted_changes(cs, s) THEN [ok |-> TRUE, cs |-> cs, s |-> s]
    ELSE IF fault THEN Fail(cs, s)
    ELSE git_stash_push(cs, s, tag)

find_commit_by_main_sha(cs, s, main_sha) ==
    IF ~is_claude_repo_initialized(s) THEN 0 ELSE git_log_all_grep(cs, s, main_sha)

\* git rev-list --max-parents=0 HEAD, stripped: 0 for None (git failed: no
\* commit yet), the root when there is one, and -1 for the several lines
\* printed when HEAD has more than one root, which name no commit.
get_initial_commit(cs, s) ==
    IF ~is_claude_repo_initialized(s) \/ HeadCommit(s) = 0 THEN 0
    ELSE IF Cardinality(Roots(cs, s)) = 1 THEN SetMax(Roots(cs, s))
    ELSE -1

\* Called with a commit_sha only; the branch-only path is not modelled.
\* Every branch of the store is reset to the commit, not the named one only.
create_or_checkout_branch_resets_all(cs, s, branch_name, commit_sha, fault) ==
    LET r == IF ~is_claude_repo_initialized(s) \/ fault THEN Fail(cs, s)
             ELSE git_checkout_B(cs, s, branch_name, commit_sha)
    IN  IF ~r.ok THEN r
        ELSE [r EXCEPT !.s.br = [b \in BranchNames |->
                                   IF r.s.br[b] # 0 THEN commit_sha ELSE 0]]

create_or_checkout_branch(cs, s, branch_name, commit_sha, fault) ==
    IF ~is_claude_repo_initialized(s) \/ fault THEN Fail(cs, s)
    ELSE git_checkout_B(cs, s, branch_name, commit_sha)

clean_untracked_files(cs, s, fault) ==
    IF ~is_claude_repo_initialized(s) \/ fault THEN Fail(cs, s)
    ELSE [ok |-> TRUE, cs |-> cs, s |-> git_clean(cs, s)]

\* The first line of `git stash list`, whatever its message.
find_stash_first_entry(s, tag) ==
    IF ~is_claude_repo_initialized(s) \/ s.stash = <<>> THEN 0 ELSE 1

\* The first line of `git stash list` that contains "sessions-for-<tag>",
\* as an index into the list (stash@{k-1}); 0 for None.
find_stash_by_message(s, tag) ==
    LET hits == {k \in 1..Len(s.stash) : s.stash[k].tag = tag}
    IN  IF ~is_claude_repo_initialized(s) \/ hits = {} THEN 0
        ELSE CHOOSE k \in hits : \A j \in hits : k <= j

\* git stash apply in place of pop: the entry stays in the list.
pop_stash_keeps_entry(cs, s, k, fault) ==
    LET r == IF ~is_claude_repo_initialized(s) \/ fault THEN Fail(cs, s)
             ELSE git_stash_pop(cs, s, k)
    IN  [r EXCEPT !.s.stash = s.stash]

pop_stash(cs, s, k, fault) ==
    IF ~is_claude_repo_initialized(s) \/ fault THEN Fail(cs, s)
    ELSE git_stash_pop(cs, s, k)

\* No branch name counts as detached.
is_detached_head_never(branch_name) == FALSE

is_detached_head(branch_name) == branch_name = "HEAD"

\* git init; git commit --allow-empty -m "Empty initial state"; and, when
\* session files are lying there, a second commit of them whose message
\* names the primary HEAD on its second line.
init_claude_repo(cs, s, skip_initial_commit, defaultBranch, main_sha) ==
    LET s0 == [s EXCEPT !.init = TRUE, !.head = defaultBranch]
        n  == Len(cs)
        c0 == [kind |-> "init", refs |-> {}, subj |-> {}, tree |-> EmptyTree,
               parents |-> <<>>]
        c1 == [kind |-> "ctx", refs |-> {main_sha}, subj |-> {}, tree |-> s.wt,
               parents |-> <<n + 1>>]
    IN  IF skip_initial_commit THEN [ok |-> TRUE, cs |-> cs, s |-> s0]
        ELSE IF s.wt = EmptyTree
             THEN [ok |-> TRUE, cs |-> Append(cs, c0),
                   s |-> [s0 EXCEPT !.br[defaultBranch] = n + 1]]
        ELSE [ok |-> TRUE, cs |-> cs \o <<c0, c1>>,
              s |-> [s0 EXCEPT !.br[defaultBranch] = n + 2]]

\* add_session_files then commit_sessions(main_commit_sha), as the commit
\* hook runs them: git add "*.jsonl" when a session file exists, then
\* git commit -m "Context for main repo commit <sha>" when status is not clean.
commit_sessions(cs, s, main_commit_sha) ==
    LET anyFile == \E p \in Paths : s.wt[p] # 0
        staged  == IF anyFile THEN s.wt ELSE HeadTree(cs, s)
        c == [kind |-> "ctx", refs |-> {main_commit_sha}, subj |-> {main_commit_sha},
              tree |-> staged,
              parents |-> IF HeadCommit(s) = 0 THEN <<>> ELSE <<HeadCommit(s)>>]
    IN  IF ~is_claude_repo_initialized(s) THEN Fail(cs, s)
        ELSE IF ~Dirty(cs, s) THEN [ok |-> TRUE, cs |-> cs, s |-> s]
        ELSE IF staged = HeadTree(cs, s)
             THEN [ok |-> FALSE, cs |-> cs,
                   s |-> [s EXCEPT !.unmerged = s.unmerged /\ ~anyFile]]
        ELSE [ok |-> TRUE, cs |-> Append(cs, c),
              s |-> [s EXCEPT !.br[s.head] = Len(cs) + 1, !.unmerged = FALSE]]

-----------------------------------------------------------------------------
(***************************************************************************)
(* cli/checkout_sync.py: sync_checkout(old_sha, new_sha, checkout_type).   *)
(* Each step of the function is an operator from the call's frame (k: the  *)
(* position, arguments and locals; cs: the commits; s: the store) to the   *)
(* frame after the step, and an action that takes it.  k.trace lists the   *)
(* steps run, k.pre is the store when the call began, k.out how it ended,  *)
(* k.stash_ref the stash entry Restore found (by its WIP commit).          *)
(***************************************************************************)
CkIdle ==
    [pc |-> "idle", old |-> "X", new |-> "X", type |-> "0", branch |-> "",
     claude |-> 0, trace |-> <<>>, pre |-> NoStore, preCommits |-> 0,
     stash_ref |-> 0, out |-> "", stashOk |-> TRUE, cleanOk |-> TRUE,
     faulted |-> FALSE, exc |-> "", exit |-> -1]

Frame(k, cs, s) == [k |-> k, cs |-> cs, s |-> s]

\* The call as the hook starts it: cc-checkout-sync <old> <new> <type>.
main(old_sha, new_sha, checkout_type, cs, s) ==
    Frame([CkIdle EXCEPT !.pc = "gate", !.old = old_sha, !.new = new_sha,
                         !.type = checkout_type, !.pre = s,
                         !.preCommits = Len(cs)],
          cs, s)

\* sync_checkout returns; main falls off its end and the process exits 0.
Done(k, out) == [k EXCEPT !.pc = "done", !.out = out, !.exit = 0]

\* What a call into git_ops.py can raise that its `except
\* subprocess.CalledProcessError` clauses let through: git cannot be started
\* (OSError), its output cannot be decoded (UnicodeDecodeError).
Raisable == {"OSError", "UnicodeDecodeError"}

\* The classes `except Exception` catches, among those and the two a process
\* can be ended with from outside.
SubclassOfException(exc) == exc \notin {"KeyboardInterrupt", "SystemExit"}

\* The handler of main exits with status 1.
main_except_exits_1(k, exc) ==
    [k EXCEPT !.pc = "done", !.out = "error", !.exc = exc, !.exit = 1]

\* main, lines 124-131: an exception leaves sync_checkout; caught, it is
\* printed with its traceback and the process exits 0; uncaught, the
\* interpreter exits 1.
main_except(k, exc) ==
    [k EXCEPT !.pc = "done", !.out = "error", !.exc = exc,
              !.exit = IF SubclassOfException(exc) THEN 0 ELSE 1]

\* The checks before anything is touched.  new_branch is what
\* get_main_repo_branch reads in the primary project: a branch name, "HEAD"
\* when detached, "" for None.
Gate(k, cs, s, new_branch) ==
    Frame(IF k.type # "1" THEN Done(k, "file_checkout")
          ELSE IF ~is_claude_repo_initialized(s) THEN Done(k, "not_initialized")
          ELSE IF new_branch = "" THEN Done(k, "no_branch")
          ELSE IF is_detached_head(new_branch)
               THEN [Done(k, "detached") EXCEPT !.branch = new_branch]
          ELSE [k EXCEPT !.pc = "preserve", !.branch = new_branch],
          cs, s)

AfterPreserve == "resolve"

\* Step 1: stash the uncommitted changes under old_sha; a failure is a
\* warning only.
Preserve(k, cs, s, fault) ==
    LET r == stash_sessions(cs, s, k.old, fault)
    IN  Frame([k EXCEPT !.pc = AfterPreserve, !.stashOk = r.ok,
                        !.trace = Append(@, "Preserve"),
                        !.faulted = @ \/ fault],
              r.cs, r.s)

\* Resolve hands over to Clean: Switch is skipped.
AfterResolveSkipsSwitch == "clean"

AfterResolve == "switch"

\* Step 2: the commit for new_sha, else the initial commit.
Resolve(k, cs, s) ==
    LET claude_commit  == find_commit_by_main_sha(cs, s, k.new)
        initial_commit == get_initial_commit(cs, s)
        k1 == [k EXCEPT !.trace = Append(@, "Resolve")]
    IN  Frame(IF claude_commit # 0
              THEN [k1 EXCEPT !.pc = AfterResolve, !.claude = claude_commit]
              ELSE IF initial_commit = 0 THEN Done(k1, "no_commits")
              ELSE [k1 EXCEPT !.pc = AfterResolve, !.claude = initial_commit],
              cs, s)

\* A Switch that fails still cleans the untracked files before it returns.
Switch_cleans_on_failure(k, cs, s, fault) ==
    LET r  == create_or_checkout_branch(cs, s, k.branch, k.claude, fault)
        k1 == [k EXCEPT !.trace = Append(@, "Switch"), !.faulted = @ \/ fault]
    IN  Frame(IF r.ok THEN [k1 EXCEPT !.pc = "clean"]
              ELSE Done(k1, "switch_failed"),
              r.cs, git_clean(r.cs, r.s))

AfterSwitch == "clean"

\* Step 3: git checkout -B <new_branch> <commit>.
Switch(k, cs, s, fault) ==
    LET r  == create_or_checkout_branch(cs, s, k.branch, k.claude, fault)
        k1 == [k EXCEPT !.trace = Append(@, "Switch"), !.faulted = @ \/ fault]
    IN  Frame(IF r.ok THEN [k1 EXCEPT !.pc = AfterSwitch]
              ELSE Done(k1, "switch_failed"),
              r.cs, r.s)

\* The call returns after Clean.
AfterCleanReturns == "done"

AfterClean == "restore"

\* Step 3.5: git clean -fd; a failure is a warning only.
Clean(k, cs, s, fault) ==
    LET r == clean_untracked_files(cs, s, fault)
    IN  Frame([k EXCEPT !.pc = AfterClean, !.cleanOk = r.ok,
                        !.trace = Append(@, "Clean"), !.faulted = @ \/ fault],
              r.cs, r.s)

\* Step 4: pop the stash made for new_sha, when there is one.
Restore(k, cs, s, fault) ==
    LET stash_ref == find_stash_by_message(s, k.new)
        r  == pop_stash(cs, s, stash_ref, fault)
        k1 == [k EXCEPT !.trace = Append(@, "Restore"),
                        !.stash_ref = IF stash_ref = 0 THEN 0 ELSE s.stash[stash_ref].w]
    IN  IF stash_ref = 0 THEN Frame(Done(k1, "synced"), cs, s)
        ELSE Frame([Done(k1, IF r.ok THEN "synced_restored" ELSE "synced_pop_failed")
                      EXCEPT !.faulted = @ \/ fault],
                   r.cs, r.s)

\* One step of the call, by position.
Step(k, cs, s, new_branch, fault) ==
    CASE k.pc = "gate"     -> Gate(k, cs, s, new_branch)
      [] k.pc = "preserve" -> Preserve(k, cs, s, fault)
      [] k.pc = "resolve"  -> Resolve(k, cs, s)
      [] k.pc = "switch"   -> Switch(k, cs, s, fault)
      [] k.pc = "clean"    -> Clean(k, cs, s, fault)
      [] k.pc = "restore"  -> Restore(k, cs, s, fault)
      [] OTHER             -> Frame(k, cs, s)

RECURSIVE RunFrame(_, _)
RunFrame(f, new_branch) ==
    IF f.k.pc \in {"done", "idle"} THEN f
    ELSE RunFrame(Step(f.k, f.cs, f.s, new_branch, FALSE), new_branch)

\* The whole call, from hook to return, when no git process fails for a
\* reason outside the model.
sync_checkout(old_sha, new_sha, checkout_type, new_branch, cs, s) ==
    RunFrame(main(old_sha, new_sha, checkout_type, cs, s), new_branch)

\* Whether the git process of a step fails for a reason outside the model;
\* at most one does in one call.
Faults == IF ck.faulted THEN {FALSE} ELSE BOOLEAN

Take(f) ==
    /\ ck' = f.k
    /\ commits' = f.cs
    /\ store' = [store EXCEPT !["A"] = f.s]
    /\ UNCHANGED <<walkVars, syncVars>>

\* The post-checkout hook fires.
CkStart(types) ==
    /\ ck.pc = "idle"
    /\ used.events < MaxEvents
    /\ \E o \in Primary, n \in Primary, t \in types :
         Take(main(o, n, t, commits, store["A"]))
    /\ used' = [used EXCEPT !.events = @ + 1]

CkGate(answers) ==
    /\ ck.pc = "gate"
    /\ \E new_branch \in answers : Take(Gate(ck, commits, store["A"], new_branch))
    /\ UNCHANGED used

CkPreserve ==
    /\ ck.pc = "preserve"
    /\ \E fault \in Faults : Take(Preserve(ck, commits, store["A"], fault))
    /\ UNCHANGED used

CkResolve ==
    /\ ck.pc = "resolve"
    /\ Take(Resolve(ck, commits, store["A"]))
    /\ UNCHANGED used

CkSwitch ==
    /\ ck.pc = "switch"
    /\ \E fault \in Faults : Take(Switch(ck, commits, store["A"], fault))
    /\ UNCHANGED used

CkClean ==
    /\ ck.pc = "clean"
    /\ \E fault \in Faults : Take(Clean(ck, commits, store["A"], fault))
    /\ UNCHANGED used

CkRestore ==
    /\ ck.pc = "restore"
    /\ \E fault \in Faults : Take(Restore(ck, commits, store["A"], fault))
    /\ UNCHANGED used

\* A step raises before git has changed anything; at most one failure from
\* outside in one call.
CkRaise ==
    /\ ck.pc \in {"gate", "preserve", "resolve", "switch", "clean", "restore"}
    /\ ~ck.faulted
    /\ \E exc \in Raisable :
         Take(Frame(main_except([ck EXCEPT !.faulted = TRUE], exc), commits, store["A"]))
    /\ UNCHANGED used

\* The call has returned; the hook is over.
CkReturn ==
    /\ ck.pc = "done"
    /\ ck' = CkIdle
    /\ UNCHANGED <<commits, store, used, walkVars, syncVars>>

\* The hook, for the checkout types in `types` and the answers in `answers`
\* of get_main_repo_branch.
Hook(types, answers) ==
    \/ CkStart(types)
    \/ CkGate(answers)
    \/ CkPreserve
    \/ CkResolve
    \/ CkSwitch
    \/ CkClean
    \/ CkRestore
    \/ CkRaise
    \/ CkReturn

-----------------------------------------------------------------------------
(***************************************************************************)
(* What happens around the program: the store is created (cc-init), Claude *)
(* writes session files, the commit hook records them, and the primary     *)
(* project changes branch.  None of it happens while a hook call runs.     *)
(***************************************************************************)
Quiet ==
    /\ ck.pc = "idle"
    /\ \A m \in Machines, x \in Threads : sy[m][x].pc = "idle"

CcInit(m, defaults, shas) ==
    /\ Quiet
    /\ ~store[m].init
    /\ \E d \in defaults, sha \in shas :
         LET r == init_claude_repo(commits, store[m], FALSE, d, sha)
         IN  /\ commits' = r.cs
             /\ store' = [store EXCEPT ![m] = r.s]
    /\ UNCHANGED <<ck, used, walkVars, syncVars>>

EditSession(m, values) ==
    /\ Quiet
    /\ ~store[m].unmerged
    /\ \E p \in Paths, v \in values :
         /\ store[m].wt[p] # v
         /\ store' = [store EXCEPT ![m].wt[p] = v]
    /\ UNCHANGED <<commits, ck, used, walkVars, syncVars>>

RecordSessions(m, shas) ==
    /\ Quiet
    /\ used.records < MaxRecords
    /\ \E sha \in shas :
         LET r == commit_sessions(commits, store[m], sha)
         IN  /\ r.cs # commits \/ r.s # store[m]
             /\ commits' = r.cs
             /\ store' = [store EXCEPT ![m] = r.s]
    /\ used' = [used EXCEPT !.records = @ + 1]
    /\ UNCHANGED <<ck, walkVars, syncVars>>

Init ==
    /\ commits = <<>>
    /\ store = [m \in Machines |-> NoStore]
    /\ ck = CkIdle
    /\ used = NothingUsed
    /\ primary = NoHistory
    /\ walk = NoWalk
    /\ remote = NoBundle
    /\ sy = [m \in Machines |-> [x \in Threads |-> IdleRun]]

NextCheckout ==
    \/ Hook({"1"}, BranchNames)
    \/ CcInit("A", {"main"}, Primary)
    \/ EditSession("A", Content)
    \/ RecordSessions("A", Primary)

SpecCheckout == Init /\ [][NextCheckout]_vars

\* cc-sync on a machine without store (cli/sync.py, Mode B) whose pull
\* fails: the store is left created, without any commit.
Bootstrap(m, defaults) ==
    /\ Quiet
    /\ ~is_claude_repo_initialized(store[m])
    /\ \E d \in defaults :
         store' = [store EXCEPT ![m] = init_claude_repo(commits, @, TRUE, d, "X").s]
    /\ UNCHANGED <<commits, ck, used, walkVars, syncVars>>

\* The hook on a store that cc-init or a failed bootstrap has created.
NextHook ==
    \/ Hook({"1"}, BranchNames)
    \/ CcInit("A", {"main"}, Primary)
    \/ Bootstrap("A", {"main"})
    \/ EditSession("A", Content)
    \/ RecordSessions("A", Primary)

SpecHook == Init /\ [][NextHook]_vars

\* The hook for every checkout type and every answer of the primary project.
NextGate ==
    \/ Hook({"0", "1"}, MainBranches)
    \/ CcInit("A", {"main"}, Primary)
    \/ EditSession("A", Content)
    \/ RecordSessions("A", Primary)

SpecGate == Init /\ [][NextGate]_vars

-----------------------------------------------------------------------------
(***************************************************************************)
(* core/git_ops.py: find_context_for_commit_or_ancestor(main_sha,          *)
(* max_depth), one action per iteration of its loop.  walk.queried lists   *)
(* the commits handed to find_commit_by_main_sha, in order.                *)
(***************************************************************************)
\* The parents a commit can have: none, one, or the two of a merge.
ParentLists(c) ==
    {<<>>} \cup {<<a>> : a \in History \ {c}}
           \cup {p \in (History \ {c}) \X (History \ {c}) : p[1] # p[2]}

\* The primary project reports no parents.
get_commit_parents_none(g, commit_sha) == <<>>

\* git rev-list --parents -n 1 <sha> in the primary project, minus the
\* commit itself.
get_commit_parents(g, commit_sha) == g[commit_sha]

\* No commit counts as visited.
SeenNever(visited, current_sha) == FALSE

\* current_sha in visited.
Seen(visited, current_sha) == current_sha \in visited

\* Lines 622-627: the call begins.
WalkEnter(w, s) ==
    IF ~is_claude_repo_initialized(s) THEN [w EXCEPT !.pc = "ret", !.result = 0]
    ELSE [w EXCEPT !.pc = "loop", !.visited = {}, !.to_check = <<w.main_sha>>,
                   !.depth = 0]

\* The loop takes the commit queued last (to_check.pop()).
WalkBody_takes_last(w, g, cs, s) ==
    IF ~(w.to_check # <<>> /\ w.depth < w.max_depth)
    THEN [w EXCEPT !.pc = "ret", !.result = 0]
    ELSE
      LET current_sha   == w.to_check[Len(w.to_check)]
          rest          == SubSeq(w.to_check, 1, Len(w.to_check) - 1)
          claude_commit == find_commit_by_main_sha(cs, s, current_sha)
          parents       == get_commit_parents(g, current_sha)
      IN  IF Seen(w.visited, current_sha) THEN [w EXCEPT !.to_check = rest]
          ELSE IF claude_commit # 0
          THEN [w EXCEPT !.pc = "ret", !.result = claude_commit,
                         !.to_check = rest,
                         !.visited = @ \cup {current_sha},
                         !.queried = Append(@, current_sha)]
          ELSE [w EXCEPT !.to_check = rest \o parents,
                         !.visited = @ \cup {current_sha},
                         !.queried = Append(@, current_sha),
                         !.depth = @ + 1]

\* Lines 629-645: one iteration of the loop, or the exit from it.
WalkBody(w, g, cs, s) ==
    IF ~(w.to_check # <<>> /\ w.depth < w.max_depth)
    THEN [w EXCEPT !.pc = "ret", !.result = 0]
    ELSE
      LET current_sha   == Head(w.to_check)
          rest          == Tail(w.to_check)
          claude_commit == find_commit_by_main_sha(cs, s, current_sha)
          parents       == get_commit_parents(g, current_sha)
      IN  IF Seen(w.visited, current_sha) THEN [w EXCEPT !.to_check = rest]
          ELSE IF claude_commit # 0
          THEN [w EXCEPT !.pc = "ret", !.result = claude_commit,
                         !.to_check = rest,
                         !.visited = @ \cup {current_sha},
                         !.queried = Append(@, current_sha)]
          ELSE [w EXCEPT !.to_check = rest \o parents,
                         !.visited = @ \cup {current_sha},
                         !.queried = Append(@, current_sha),
                         !.depth = @ + 1]

WalkCall ==
    /\ walk.pc = "call"
    /\ walk' = WalkEnter(walk, store["A"])
    /\ UNCHANGED <<commits, store, ck, used, primary, syncVars>>

WalkIter ==
    /\ walk.pc = "loop"
    /\ walk' = WalkBody(walk, primary, commits, store["A"])
    /\ UNCHANGED <<commits, store, ck, used, primary, syncVars>>

find_context_for_commit_or_ancestor == WalkCall \/ WalkIter

\* The commits of c's ancestry in g, c included.
RECURSIVE Ancestry(_, _)
Ancestry(g, cset) ==
    LET next == cset \cup UNION {SeqToSet(g[c]) : c \in cset}
    IN  IF next = cset THEN cset ELSE Ancestry(g, next)

\* A store after cc-init in which session commits were recorded for the
\* primary commits in tags, oldest first, and then, when stashed is one of
\* them, uncommitted changes were stashed by a checkout away from it.
RECURSIVE Recorded(_, _)
Recorded(f, tags) ==
    IF tags = <<>> THEN f
    ELSE LET v == IF HeadTree(f.cs, f.s)["a"] = 1 THEN 2 ELSE 1
             r == commit_sessions(f.cs, [f.s EXCEPT !.wt["a"] = v], Head(tags))
         IN  Recorded([cs |-> r.cs, s |-> r.s], Tail(tags))

\* The primary commits a store has session commits for, up to renaming of
\* the commits other than main_sha.
TaggedSets == {{}, {"D"}, {"A"}, {"A", "D"}, {"A", "B"}}

HistoryOrder == <<"A", "B", "C", "D">>

WalkStores ==
    LET c0 == init_claude_repo(<<>>, NoStore, FALSE, "main", "A")
        base(T) == Recorded([cs |-> c0.cs, s |-> c0.s],
                            SelectSeq(HistoryOrder, LAMBDA c : c \in T))
        stashed(f, c) ==
            LET v == IF HeadTree(f.cs, f.s)["a"] = 1 THEN 2 ELSE 1
                r == stash_sessions(f.cs, [f.s EXCEPT !.wt["a"] = v], c, FALSE)
            IN  [cs |-> r.cs, s |-> r.s]
    IN  {[cs |-> <<>>, s |-> NoStore]}
          \cup {base(T) : T \in TaggedSets}
          \cup {stashed(base(T), "A") : T \in {{}, {"A", "B"}}}

\* Any history with at most MaxMerges merge commits in which the commits
\* outside main_sha's ancestry have no parents recorded, any such store, any
\* max_depth up to MaxDepth.
InitWalk ==
    /\ ck = CkIdle
    /\ used = NothingUsed
    /\ \E pa \in ParentLists("A"), pb \in ParentLists("B"),
          pc \in ParentLists("C"), pd \in ParentLists("D") :
         primary = [c \in History |->
                      CASE c = "A" -> pa [] c = "B" -> pb [] c = "C" -> pc [] OTHER -> pd]
    /\ Cardinality({c \in History : Len(primary[c]) > 1}) <= MaxMerges
    /\ \A c \in History \ Ancestry(primary, {NoWalk.main_sha}) : primary[c] = <<>>
    /\ \E d \in 0..MaxDepth : walk = [NoWalk EXCEPT !.pc = "call", !.max_depth = d]
    /\ \E f \in WalkStores :
         /\ commits = f.cs
         /\ store = [m \in Machines |-> IF m = "A" THEN f.s ELSE NoStore]
    /\ remote = NoBundle
    /\ sy = [m \in Machines |-> [x \in Threads |-> IdleRun]]

SpecWalk ==
    InitWalk /\ [][find_context_for_commit_or_ancestor]_vars
             /\ WF_vars(find_context_for_commit_or_ancestor)

-----------------------------------------------------------------------------
(***************************************************************************)
(* git, as far as core/sync_ops.py uses it.  A bundle made with --all      *)
(* carries every branch ref; the commits are the same objects everywhere.  *)
(***************************************************************************)
\* git bundle create <tmp> --all: refused when the store has no ref.
git_bundle_create_all(cs, s) ==
    IF BranchTips(s) = {} /\ s.stash = <<>>
    THEN [ok |-> FALSE, bundle |-> NoBundle]
    ELSE [ok |-> TRUE, bundle |-> [exists |-> TRUE, br |-> s.br, head |-> s.head]]

(***************************************************************************)
(* git fetch <bundle> <branch>:<branch>.  Refused when the bundle has no   *)
(* such branch, when the branch is the one checked out (unborn or not),    *)
(* and when the local branch is not an ancestor of the bundle's.           *)
(***************************************************************************)
git_fetch(cs, s, bundle, branch) ==
    LET theirs == bundle.br[branch]
    IN  IF theirs = 0 \/ s.head = branch THEN Fail(cs, s)
        ELSE IF s.br[branch] # 0 /\ s.br[branch] \notin Reach(cs, {theirs})
        THEN Fail(cs, s)
        ELSE [ok |-> TRUE, cs |-> cs, s |-> [s EXCEPT !.br[branch] = theirs]]

\* The working tree after git moves HEAD's tree from ht to tt; blocked when
\* a path to write has local changes or an untracked file in the way.
Blocked(s, ht, tt) ==
    \E p \in Paths : ht[p] # tt[p] /\ s.wt[p] # ht[p] /\ ~(ht[p] # 0 /\ s.wt[p] = 0)

Rewritten(s, ht, tt) == [p \in Paths |-> IF ht[p] = tt[p] THEN s.wt[p] ELSE tt[p]]

(***************************************************************************)
(* git merge <branch> -X theirs --allow-unrelated-histories, into the      *)
(* branch checked out: nothing to do when <branch> is already merged, a    *)
(* fast-forward when HEAD is its ancestor (or unborn), else a merge commit *)
(* in which a path both sides changed takes their version; a path one side *)
(* changed and the other deleted is a conflict -X theirs does not settle.  *)
(***************************************************************************)
git_merge_theirs(cs, s, branch) ==
    LET mc == s.br[branch]
        hc == HeadCommit(s)
        ht == HeadTree(cs, s)
        tt == cs[mc].tree
        common == Reach(cs, {hc}) \cap Reach(cs, {mc})
        bt == IF common = {} THEN EmptyTree ELSE cs[SetMax(common)].tree
        conflict(p) == /\ ht[p] # tt[p] /\ ht[p] # bt[p] /\ tt[p] # bt[p]
                       /\ (ht[p] = 0 \/ tt[p] = 0)
        rt == [p \in Paths |->
                 IF ht[p] = tt[p] \/ tt[p] = bt[p] THEN ht[p]
                 ELSE IF conflict(p) THEN ht[p]
                 ELSE tt[p]]
        c  == [kind |-> "merge", refs |-> {}, subj |-> {}, tree |-> rt,
               parents |-> <<hc, mc>>]
    IN  IF mc = 0 \/ s.unmerged THEN Fail(cs, s)
        ELSE IF hc = 0 \/ hc \in Reach(cs, {mc})
        THEN IF Blocked(s, ht, tt) THEN Fail(cs, s)
             ELSE [ok |-> TRUE, cs |-> cs,
                   s |-> [s EXCEPT !.br[s.head] = mc, !.wt = Rewritten(s, ht, tt)]]
        ELSE IF mc \in Reach(cs, {hc}) THEN [ok |-> TRUE, cs |-> cs, s |-> s]
        ELSE IF Blocked(s, ht, rt) THEN Fail(cs, s)
        ELSE IF \E p \in Paths : conflict(p)
        THEN [ok |-> FALSE, cs |-> cs,
              s |-> [s EXCEPT !.unmerged = TRUE,
                              !.wt = [p \in Paths |->
                                        IF conflict(p) THEN SetMax({ht[p], tt[p]})
                                        ELSE Rewritten(s, ht, rt)[p]]]]
        ELSE [ok |-> TRUE, cs |-> Append(cs, c),
              s |-> [s EXCEPT !.br[s.head] = Len(cs) + 1,
                              !.wt = Rewritten(s, ht, rt)]]

-----------------------------------------------------------------------------
(***************************************************************************)
(* core/sync_ops.py and cli/sync.py.  A run of one of their functions is a *)
(* record p: where it is (pc), what was asked (op), whether the three      *)
(* SUPABASE_* variables hold (cfg), whether its temporary bundle file      *)
(* exists (tmp), the bundle it holds (snap), the store when its pull       *)
(* began (pre), how the pull ended (pulled, why) and whether it uploaded.  *)
(* A step is an operator from the run, the commits, the store and the      *)
(* remote object to what they are after the step.                          *)
(***************************************************************************)
\* Only the url and the service key are looked at.
get_supabase_config_without_bucket(p) ==
    p.cfg["url"] = "set" /\ p.cfg["serviceKey"] = "set"

\* all([url, service_key, bucket]): None and "" both count as missing.
get_supabase_config(p) == \A o \in Options : p.cfg[o] = "set"

Sy(p, cs, s, rem) == [p |-> p, cs |-> cs, s |-> s, rem |-> rem]

Returned(p, code) == [p EXCEPT !.pc = "done", !.result = code]

\* The bootstrap too goes on to push after a pull that failed.
PullFailed_always_pushes(p, why) ==
    [p EXCEPT !.pulled = "no", !.why = why, !.tmp = FALSE, !.pc = "push"]

\* pull_from_remote has returned False: sync_with_remote goes on to push,
\* the bootstrap of cli/sync.py gives up.
PullFailed(p, why) ==
    LET q == [p EXCEPT !.pulled = "no", !.why = why, !.tmp = FALSE]
    IN  IF q.op = "sync" THEN [q EXCEPT !.pc = "push"] ELSE Returned(q, 1)

\* cli/sync.py: the command starts.  A store that is not there is created
\* without initial commit (Mode B) and only pulled into.
sync(p, cs, s, cfg, defaultBranch) ==
    LET q == [p EXCEPT !.cfg = cfg]
        r == init_claude_repo(cs, s, TRUE, defaultBranch, "X")
    IN  IF ~get_supabase_config(q) THEN Sy(Returned([q EXCEPT !.op = "sync"], 1), cs, s, NoBundle)
        ELSE IF is_claude_repo_initialized(s)
        THEN Sy([q EXCEPT !.op = "sync", !.pc = "pull"], cs, s, NoBundle)
        ELSE Sy([q EXCEPT !.op = "boot", !.pc = "pull"], r.cs, r.s, NoBundle)

\* An exception no handler of sync_ops.py or cli/sync.py catches: the call
\* and its callers end there (result 2).
Raised(p) == [p EXCEPT !.pc = "done", !.result = 2]

\* pull_from_remote, lines 166-199: the checks, the GET and the temporary
\* file.  net says whether the request gets an answer, written whether the
\* bytes can be written to the temporary file (an OSError when not, raised
\* after NamedTemporaryFile(delete=False) has created the file and outside
\* the try whose finally unlinks it).
Download(p, cs, s, rem, net, written) ==
    LET q == [p EXCEPT !.pre = s]
    IN  Sy(IF ~is_claude_repo_initialized(s) THEN PullFailed(q, "uninit")
           ELSE IF ~get_supabase_config(q) THEN PullFailed(q, "config")
           ELSE IF ~net THEN PullFailed(q, "network")
           ELSE IF ~rem.exists THEN PullFailed(q, "not_found")
           ELSE IF ~written THEN Raised([q EXCEPT !.tmp = TRUE, !.why = "write"])
           ELSE [q EXCEPT !.pc = "fetch", !.tmp = TRUE, !.snap = rem],
           cs, s, rem)

\* pull_from_remote, lines 201-208: git fetch <tmp> main:main.
Fetch(p, cs, s, rem) ==
    LET r == git_fetch(cs, s, p.snap, "main")
    IN  Sy(IF r.ok THEN [p EXCEPT !.pc = "merge"] ELSE PullFailed(p, "fetch"),
           r.cs, r.s, rem)

\* sync_with_remote goes on to push after a pull that succeeded.
Merge_goes_on_to_push(p, cs, s, rem) ==
    LET r == git_merge_theirs(cs, s, "main")
    IN  Sy(IF r.ok THEN [p EXCEPT !.pulled = "yes", !.tmp = FALSE, !.pc = "push"]
           ELSE PullFailed(p, "merge"),
           r.cs, r.s, rem)

\* pull_from_remote, lines 210-226: git merge, then the temporary file goes.
Merge(p, cs, s, rem) ==
    LET r == git_merge_theirs(cs, s, "main")
    IN  Sy(IF r.ok THEN Returned([p EXCEPT !.pulled = "yes", !.tmp = FALSE], 0)
           ELSE PullFailed(p, "merge"),
           r.cs, r.s, rem)

\* push_to_remote, lines 250-279: the checks, the temporary file and
\* git bundle create --all.
Bundle(p, cs, s, rem) ==
    LET r == git_bundle_create_all(cs, s)
    IN  Sy(IF ~is_claude_repo_initialized(s) \/ ~get_supabase_config(p) \/ ~r.ok
           THEN Returned(p, 1)
           ELSE [p EXCEPT !.pc = "put", !.tmp = TRUE, !.snap = r.bundle],
           cs, s, rem)

\* push_to_remote, lines 281-311: the PUT, then the temporary file goes.
Put(p, cs, s, rem, net) ==
    IF net THEN Sy(Returned([p EXCEPT !.tmp = FALSE, !.uploaded = TRUE], 0), cs, s, p.snap)
    ELSE Sy(Returned([p EXCEPT !.tmp = FALSE], 1), cs, s, rem)

\* The thread push_to_remote_async starts: push_to_remote on its own.
push_to_remote_async(p, cfg) == [p EXCEPT !.op = "push", !.pc = "push", !.cfg = cfg]

Does(m, x, f) ==
    /\ sy' = [sy EXCEPT ![m][x] = f.p]
    /\ commits' = f.cs
    /\ store' = [store EXCEPT ![m] = f.s]
    /\ UNCHANGED <<ck, walkVars>>

\* cc-sync is run on machine m.
SyStart(m, envs) ==
    /\ ck.pc = "idle"
    /\ sy[m].fg.pc = "idle"
    /\ \A o \in Machines \ {m}, x \in Threads : sy[o][x].pc = "idle"
    /\ used.syncs < MaxSyncs
    /\ \E cfg \in envs, d \in DefaultBranches :
         Does(m, "fg", sync(sy[m].fg, commits, store[m], cfg, d))
    /\ used' = [used EXCEPT !.syncs = @ + 1]
    /\ UNCHANGED remote

\* The commit hook of machine m starts a background push.
SyAsync(m, envs) ==
    /\ Quiet
    /\ used.asyncs < MaxAsyncs
    /\ is_claude_repo_initialized(store[m])
    /\ \E cfg \in envs : sy' = [sy EXCEPT ![m].bg = push_to_remote_async(@, cfg)]
    /\ used' = [used EXCEPT !.asyncs = @ + 1]
    /\ UNCHANGED <<commits, store, remote, ck, walkVars>>

SyDownload(m, x) ==
    /\ sy[m][x].pc = "pull"
    /\ \E net \in BOOLEAN, written \in BOOLEAN :
         Does(m, x, Download(sy[m][x], commits, store[m], remote, net, written))
    /\ UNCHANGED <<remote, used>>

SyFetch(m, x) ==
    /\ sy[m][x].pc = "fetch"
    /\ Does(m, x, Fetch(sy[m][x], commits, store[m], remote))
    /\ UNCHANGED <<remote, used>>

SyMerge(m, x) ==
    /\ sy[m][x].pc = "merge"
    /\ Does(m, x, Merge(sy[m][x], commits, store[m], remote))
    /\ UNCHANGED <<remote, used>>

SyBundle(m, x) ==
    /\ sy[m][x].pc = "push"
    /\ Does(m, x, Bundle(sy[m][x], commits, store[m], remote))
    /\ UNCHANGED <<remote, used>>

SyPut(m, x) ==
    /\ sy[m][x].pc = "put"
    /\ \E net \in BOOLEAN :
         LET f == Put(sy[m][x], commits, store[m], remote, net)
         IN  Does(m, x, f) /\ remote' = f.rem
    /\ UNCHANGED used

\* The command that called push_to_remote_async ends while its thread is
\* still in push_to_remote: the thread is a daemon thread (daemon=True) and
\* stops where it is, its temporary file, if any, left behind.
SyExit(m) ==
    /\ sy[m].bg.pc \in {"push", "put"}
    /\ sy' = [sy EXCEPT ![m].bg.pc = "killed"]
    /\ UNCHANGED <<commits, store, remote, ck, used, walkVars>>

\* The function has returned, or its thread is gone.
SyReturn(m, x) ==
    /\ sy[m][x].pc \in {"done", "killed"}
    /\ sy' = [sy EXCEPT ![m][x] = IdleRun]
    /\ UNCHANGED <<commits, store, remote, ck, used, walkVars>>

NextSync ==
    \/ \E m \in Machines : SyStart(m, {FullConfig, NoConfig})
    \/ SyAsync("A", {FullConfig})
    \/ \E m \in Machines, x \in Threads : SyDownload(m, x)
    \/ \E m \in Machines, x \in Threads : SyFetch(m, x)
    \/ \E m \in Machines, x \in Threads : SyMerge(m, x)
    \/ \E m \in Machines, x \in Threads : SyBundle(m, x)
    \/ \E m \in Machines, x \in Threads : SyPut(m, x)
    \/ \E m \in Machines, x \in Threads : SyReturn(m, x)
    \/ SyExit("A")
    \/ \E m \in Machines : CcInit(m, DefaultBranches, {"X"})
    \/ \E m \in Machines : EditSession(m, {0, Written(m)})
    \/ \E m \in Machines : RecordSessions(m, {"X"})

SpecSync == Init /\ [][NextSync]_vars

\* pull_from_remote called on its own, as a caller of the library may.
SyPull(m, envs) ==
    /\ Quiet
    /\ used.syncs < MaxSyncs
    /\ \E cfg \in envs :
         sy' = [sy EXCEPT ![m].fg = [@ EXCEPT !.op = "pull", !.pc = "pull", !.cfg = cfg]]
    /\ used' = [used EXCEPT !.syncs = @ + 1]
    /\ UNCHANGED <<commits, store, remote, ck, walkVars>>

\* The command and the functions of sync_ops.py under every environment.
NextConfig ==
    \/ \E m \in Machines : SyStart(m, Envs)
    \/ SyAsync("A", Envs)
    \/ SyPull("A", Envs)
    \/ \E m \in Machines, x \in Threads : SyDownload(m, x)
    \/ \E m \in Machines, x \in Threads : SyFetch(m, x)
    \/ \E m \in Machines, x \in Threads : SyMerge(m, x)
    \/ \E m \in Machines, x \in Threads : SyBundle(m, x)
    \/ \E m \in Machines, x \in Threads : SyPut(m, x)
    \/ \E m \in Machines, x \in Threads : SyReturn(m, x)
    \/ \E m \in Machines : CcInit(m, DefaultBranches, {"X"})
    \/ \E m \in Machines : EditSession(m, {0, Written(m)})
    \/ \E m \in Machines : RecordSessions(m, {"X"})

SpecConfig == Init /\ [][NextConfig]_vars

-----------------------------------------------------------------------------
(***************************************************************************)
(* Properties of the checkout hook.                                        *)
(***************************************************************************)
StepOrder == <<"Preserve", "Resolve", "Switch", "Clean", "Restore">>

StepPc == <<"preserve", "resolve", "switch", "clean", "restore">>

\* How a call that ran all five steps ends.
Synced == {"synced", "synced_restored", "synced_pop_failed"}

\* C1: in a call that passes the checks, the steps run in the order
\* Preserve, Resolve, Switch, Clean, Restore: the steps run so far are a
\* prefix of that order (none twice), a step starts exactly when the steps
\* before it have run, and a call that runs to the end has run all five.
C1_StepsInOrder ==
    /\ Len(ck.trace) <= 5
    /\ \A i \in 1..Len(ck.trace) : ck.trace[i] = StepOrder[i]
    /\ \A i \in 1..5 : ck.pc = StepPc[i] => Len(ck.trace) = i - 1
    /\ (ck.pc = "done" /\ ck.out \in Synced) => ck.trace = StepOrder

C1_Witness ==
    /\ ck.pc = "done"
    /\ ck.out = "synced_restored"
    /\ ck.trace = StepOrder

\* The conditions under which the call is to do nothing.
Gated == ck.type # "1" \/ ~ck.pre.init \/ ck.branch = "HEAD"

\* C2: a call whose type is not "1", whose store is not initialized, or
\* whose primary project reports the branch "HEAD", returns from the checks
\* and leaves the store (branch refs, checked-out branch, working tree,
\* stash list) and the commits as they were when it began.
C2_GateLeavesStore ==
    (ck.pc \notin {"idle", "gate"} /\ Gated) =>
        /\ ck.pc = "done"
        /\ store["A"] = ck.pre
        /\ Len(commits) = ck.preCommits

\* A detached primary project over a store with uncommitted changes, which
\* Preserve would have stashed.
C2_Witness ==
    /\ ck.pc = "done"
    /\ ck.out = "detached"
    /\ has_uncommitted_changes(commits, ck.pre)

StashKinds == {"index", "untracked", "wip"}

\* The commits of session files recorded for sha on the branches of s.
ContextCommits(cs, s, sha) ==
    {c \in Reach(cs, BranchTips(s)) : cs[c].kind \notin StashKinds /\ sha \in cs[c].refs}

\* The "Empty initial state" commit of s.
InitialCommits(cs, s) == {c \in Reach(cs, BranchTips(s)) : cs[c].kind = "init"}

\* C3: once Resolve and Switch have succeeded, the checked-out branch is
\* the one named after the primary project's branch and points at a commit
\* recorded for new_sha when there is one, else at the initial commit.
C3_BranchAtContextCommit ==
    (ck.pc \in {"clean", "restore"} \/ (ck.pc = "done" /\ ck.out \in Synced)) =>
        LET s  == store["A"]
            cc == ContextCommits(commits, ck.pre, ck.new)
        IN  /\ s.head = ck.branch
            /\ s.br[s.head] \in (IF cc # {} THEN cc ELSE InitialCommits(commits, ck.pre))

\* The working tree a stash entry captured, from its three commits.
Captured(cs, w) ==
    LET bt == cs[cs[w].parents[1]].tree
    IN  [p \in Paths |-> IF bt[p] # 0 THEN cs[w].tree[p] ELSE cs[cs[w].parents[3]].tree[p]]

\* The files a stash entry changed or added.
ChangedBy(cs, w) == {p \in Paths : Captured(cs, w)[p] # cs[cs[w].parents[1]].tree[p]}

StashIds(s) == {s.stash[i].w : i \in 1..Len(s.stash)}

\* The entries tagged sha the store held when the call began.
EarlierEntries(sha) ==
    {ck.pre.stash[i].w : i \in {j \in 1..Len(ck.pre.stash) : ck.pre.stash[j].tag = sha}}

AsCaptured(cs, s, w) ==
    \A p \in ChangedBy(cs, w) :
        HeadTree(cs, s)[p] \in {cs[cs[w].parents[1]].tree[p], Captured(cs, w)[p]}

C9_Idempotent ==
    (ck.pc = "done" /\ ck.type = "1" /\ ~ck.faulted) =>
        LET once  == store["A"]
            twice == sync_checkout(ck.old, ck.new, ck.type, ck.branch, commits, once).s
        IN  /\ twice.head = once.head
            /\ twice.br[twice.head] = once.br[once.head]

-----------------------------------------------------------------------------
(***************************************************************************)
(* Properties of the ancestor walk.                                        *)
(***************************************************************************)
\* C6: find_context_for_commit_or_ancestor hands at most max_depth commits
\* to find_commit_by_main_sha, hands no commit to it twice, however many
\* parent edges reach it, and returns, on every history, cycles included.
C6_WalkBounded ==
    /\ [](/\ Len(walk.queried) <= walk.max_depth
          /\ \A i \in 1..Len(walk.queried) : \A j \in 1..Len(walk.queried) :
                 walk.queried[i] = walk.queried[j] => i = j)
    /\ <>(walk.pc = "ret")

\* The walk has returned after reaching a commit over a second parent edge
\* and skipping it.
C6_Witness ==
    /\ walk.pc = "ret"
    /\ Len(walk.queried) = walk.max_depth
    /\ \E c \in walk.visited :
         Cardinality({b \in walk.visited : c \in SeqToSet(primary[b])}) > 1

\* What direct resolution finds for sha in the store; 0 when nothing.
Direct(sha) == find_commit_by_main_sha(commits, store["A"], sha)

\* The ancestors of main_sha proper.
Ancestors == Ancestry(primary, SeqToSet(primary[walk.main_sha]))

\* The primary commits the store has session commits for.
Tagged == {c \in History : ContextCommits(commits, store["A"], c) # {}}

-----------------------------------------------------------------------------
(***************************************************************************)
(* Properties of the remote reconciliation.                                *)
(***************************************************************************)
\* C4: sync_with_remote goes on to push, and uploads, only when its pull
\* ended because the remote object does not exist (HTTP 404).
C4_PushOnlyWhenRemoteEmpty ==
    \A m \in Machines :
        LET p == sy[m].fg
        IN  (p.op = "sync" /\ (p.pc \in {"push", "put"} \/ p.uploaded)) =>
                p.why = "not_found"

\* A run of pull_from_remote or push_to_remote is in progress.
InProgress(p) == p.pc \in {"pull", "fetch", "merge", "push", "put"}

\* C5: the foreground run and the background push of one machine are never
\* in progress at the same time.
C5_OneReconciliationAtATime ==
    \A m \in Machines : ~(InProgress(sy[m].fg) /\ InProgress(sy[m].bg))

\* The pull of p has returned after downloading a bundle whose main and the
\* store's main had no commit in common.
PulledUnrelated(p) ==
    /\ p.pulled # ""
    /\ p.snap.exists
    /\ p.snap.br["main"] # 0
    /\ p.pre.br["main"] # 0
    /\ Reach(commits, {p.pre.br["main"]}) \cap Reach(commits, {p.snap.br["main"]}) = {}

\* C10: a pull of a bundle whose main is unrelated to the store's main
\* succeeds and leaves every file of the bundle's main with the bundle's
\* content.
C10_RemoteWins ==
    \A m \in Machines :
        LET p == sy[m].fg
        IN  PulledUnrelated(p) =>
                /\ p.pulled = "yes"
                /\ \A f \in Paths :
                       commits[p.snap.br["main"]].tree[f] # 0 =>
                           store[m].wt[f] = commits[p.snap.br["main"]].tree[f]

-----------------------------------------------------------------------------
(***************************************************************************)
(* Round trip of a store through the remote object.                        *)
(***************************************************************************)
\* The run is cc-sync on a store that has commits, and its pull found no
\* remote object.
PushedFirst(p, m) ==
    /\ p.op = "sync" /\ p.pc = "done" /\ p.why = "not_found"
    /\ BranchTips(store[m]) # {}

\* The run is cc-sync on a machine without store (Mode B), and it has
\* downloaded the bundle another store pushed.
BootstrappedFrom(p) == p.op = "boot" /\ p.pc = "done" /\ p.snap.exists

\* C11: cc-sync from a store against a remote without object gets as far as
\* the upload of its bundle (which only the network can then fail), and
\* cc-sync on a machine without store then pulls that bundle successfully and
\* leaves the new store with the branch refs, and the commits they point at,
\* of the store that was pushed.
C11_RoundTripAcrossStores ==
    \A m \in Machines :
        LET p == sy[m].fg
        IN  /\ PushedFirst(p, m) => p.snap.exists
            /\ BootstrappedFrom(p) =>
                   /\ p.pulled = "yes"
                   /\ store[m].br = p.snap.br

-----------------------------------------------------------------------------
(***************************************************************************)
(* sync_with_remote: pull, and push only when the pull failed.             *)
(***************************************************************************)
\* The run is sync_with_remote with the three SUPABASE_* variables set.
Reconciles(p) == p.op = "sync" /\ get_supabase_config(p)

\* C12: with complete configuration sync_with_remote returns success exactly
\* when its pull succeeded or its fallback push succeeded, and after a pull
\* that succeeded no step of push_to_remote is run.
C12_SuccessIffPullOrPush ==
    \A m \in Machines :
        LET p == sy[m].fg
        IN  Reconciles(p) =>
                /\ p.pc = "done" /\ p.result \in {0, 1} =>
                       (p.result = 0 <=> (p.pulled = "yes" \/ p.uploaded))
                /\ p.pulled = "yes" => p.pc \notin {"push", "put"} /\ ~p.uploaded
                /\ p.pc \in {"push", "put"} => p.pulled = "no"

C12_Witness ==
    \E m \in Machines :
        LET p == sy[m].fg
        IN  /\ Reconciles(p) /\ p.pc = "done"
            /\ p.pulled = "yes" /\ p.result = 0 /\ ~p.uploaded

-----------------------------------------------------------------------------
(***************************************************************************)
(* The temporary bundle file of a pull or a push.                          *)
(***************************************************************************)
\* C19: when a call of pull_from_remote or push_to_remote has ended, by
\* whatever path (success, refused fetch or merge, failed request, failure
\* while the downloaded bytes are written), its temporary bundle file does
\* not exist any more.
C19_TempFileRemoved ==
    \A m \in Machines, x \in Threads :
        sy[m][x].pc \in {"done", "idle"} => ~sy[m][x].tmp

-----------------------------------------------------------------------------
(***************************************************************************)
(* The failures of the steps of sync_checkout.                             *)
(***************************************************************************)
\* What Preserve left of the store the call began with: the stash push when
\* it worked, the store untouched when it did not.
AfterPreserved ==
    stash_sessions(SubSeq(commits, 1, ck.preCommits), ck.pre, ck.old, ~ck.stashOk)

\* C13: a call that fails at Resolve (no commit for new_sha and no initial
\* commit) or at Switch returns without running Clean or Restore: the store
\* is as Preserve left it, no untracked file removed, no stash entry applied
\* or dropped.
C13_ResolveSwitchFailureTerminal ==
    ck.pc = "done" /\ ck.out \in {"no_commits", "switch_failed"} =>
        /\ "Clean" \notin SeqToSet(ck.trace)
        /\ "Restore" \notin SeqToSet(ck.trace)
        /\ store["A"] = AfterPreserved.s
        /\ commits = AfterPreserved.cs

\* Switch has failed while untracked files lie in the store and a stash entry
\* for new_sha waits.
C13_Witness ==
    /\ ck.pc = "done" /\ ck.out = "switch_failed"
    /\ git_clean(commits, store["A"]) # store["A"]
    /\ find_stash_by_message(store["A"], ck.new) # 0

\* Resolve has failed: the store has no commit.
C13_WitnessResolve ==
    /\ ck.pc = "done" /\ ck.out = "no_commits"
    /\ store["A"].wt # EmptyTree

\* C14 as stated: a call whose Clean fails returns there, and Restore is not
\* attempted.
C14_CleanFailureTerminal ==
    ~ck.cleanOk => ck.pc = "done" /\ "Restore" \notin SeqToSet(ck.trace)

\* C14: a failure at Clean is a warning only: the call goes on to Restore,
\* and ends as a synchronized event, with or without a stash entry restored.
C14_CleanFailureSoft ==
    ~ck.cleanOk =>
        /\ ck.pc \in {"restore", "done"}
        /\ ck.pc = "done" => "Restore" \in SeqToSet(ck.trace) /\ ck.out \in Synced

\* Clean has failed and Restore has popped the entry for new_sha.
C14_Witness == ck.pc = "done" /\ ~ck.cleanOk /\ ck.out = "synced_restored"

\* What Preserve would have left of the store the call began with, had the
\* stash push worked.
HadPreserved == stash_sessions(SubSeq(commits, 1, ck.preCommits), ck.pre, ck.old, FALSE)

\* C15: a call whose Preserve fails still runs Resolve and Switch, and
\* Resolve gives the commit, and Switch is asked for the branch, that they
\* would be given after a Preserve that worked.
C15_PreserveFailureSoft ==
    ~ck.stashOk =>
        /\ ck.pc # "done" \/ "Resolve" \in SeqToSet(ck.trace)
        /\ ck.pc = "done" /\ ck.out # "no_commits" => "Switch" \in SeqToSet(ck.trace)
        /\ "Resolve" \in SeqToSet(ck.trace) =>
               LET would == Resolve(ck, HadPreserved.cs, HadPreserved.s).k
               IN  /\ ck.claude = would.claude
                   /\ ck.branch = would.branch

-----------------------------------------------------------------------------
(***************************************************************************)
(* What becomes of the uncommitted session content.                        *)
(***************************************************************************)
\* The files with uncommitted or untracked content when the call began.
Uncommitted ==
    {p \in Paths : /\ ck.pre.wt[p] # 0
                   /\ ck.pre.wt[p] # HeadTree(SubSeq(commits, 1, ck.preCommits), ck.pre)[p]}

\* The content file p had when the call began is in the working tree or in a
\* stash entry tagged old_sha.
Kept(p) ==
    \/ store["A"].wt[p] = ck.pre.wt[p]
    \/ \E i \in 1..Len(store["A"].stash) :
           /\ store["A"].stash[i].tag = ck.old
           /\ Captured(commits, store["A"].stash[i].w)[p] = ck.pre.wt[p]

\* C16 as stated: when a branch-checkout call has ended, every file that had
\* uncommitted or untracked content when it began has that content in a
\* stash entry tagged old_sha or in the working tree.
C16_NothingLost ==
    ck.pc = "done" /\ ck.type = "1" => \A p \in Uncommitted : Kept(p)

-----------------------------------------------------------------------------
(***************************************************************************)
(* The entry point.                                                        *)
(***************************************************************************)
\* C17: an exception that leaves sync_checkout is caught by main, which
\* reports it and ends the process with status 0.
C17_MainExitsZero ==
    ck.exc # "" => ck.pc = "done" /\ ck.out = "error" /\ ck.exit = 0

\* An exception was raised after Switch had moved the branch.
C17_Witness ==
    /\ ck.pc = "done" /\ ck.exc \in Raisable /\ ck.exit = 0
    /\ ck.trace = <<"Preserve", "Resolve", "Switch">>

-----------------------------------------------------------------------------
(***************************************************************************)
(* What Restore takes from the stash list.                                 *)
(***************************************************************************)
\* The entries of a stash list tagged otherwise than sha, in order.
OtherEntries(q, sha) == SelectSeq(q, LAMBDA e : e.tag # sha)

\* Restore runs in this step (and does not raise).
Restores == ck.pc = "restore" /\ ck'.pc = "done" /\ ck'.exc = ""

-----------------------------------------------------------------------------
(***************************************************************************)
(* The roots of a store.                                                   *)
(***************************************************************************)
\* The commits without parent that the branches of store s reach.
ZeroParent(cs, s) == {c \in Reach(cs, BranchTips(s)) : cs[c].parents = <<>>}

\* C20: the branches of every store reach at most one commit without
\* parent, whatever initializations, recorded commits, pulls and pushes the
\* store has been through.
C20_OneRoot ==
    \A m \in Machines : Cardinality(ZeroParent(commits, store[m])) <= 1

-----------------------------------------------------------------------------
(***************************************************************************)
(* cc-sync on a machine without store (Mode B).                            *)
(***************************************************************************)
\* C21: cc-sync on a machine without store creates the store without initial
\* commit and runs the pull only: no step of push_to_remote is ever run and
\* nothing is uploaded, whether the pull fails or the remote is empty, and
\* the command reports failure when the pull has not succeeded.
C21_BootstrapPullsOnly ==
    \A m \in Machines :
        LET p == sy[m].fg
        IN  p.op = "boot" =>
                /\ is_claude_repo_initialized(store[m])
                /\ p.pc = "pull" => BranchTips(store[m]) = {}
                /\ p.pc \notin {"push", "put"} /\ ~p.uploaded
                /\ p.pc = "done" /\ p.pulled # "yes" => p.result # 0

\* The bootstrap has ended against a remote without object.
C21_Witness ==
    \E m \in Machines :
        LET p == sy[m].fg
        IN  /\ p.op = "boot" /\ p.pc = "done" /\ p.why = "not_found"
            /\ p.result = 1 /\ ~remote.exists /\ BranchTips(store[m]) = {}

-----------------------------------------------------------------------------
(***************************************************************************)
(* Incomplete configuration.                                               *)
(***************************************************************************)
\* One of the three variables is empty or not set.
Incomplete(p) == \E o \in Options : p.cfg[o] # "set"

\* The run has sent a request: its GET was answered or failed, or it holds a
\* bundle (downloaded, or created for the PUT).
Requested(p) == p.snap.exists \/ p.why \in {"network", "not_found", "write"}

\* C22: a run of the sync command, of sync_with_remote, of pull_from_remote
\* or of push_to_remote under an environment in which one of the three
\* variables is empty or not set changes no store (and creates none), no
\* commit and no remote object, sends no request, and ends with failure.
C22_IncompleteConfigFails ==
    [][\A m \in Machines, x \in Threads :
           LET p == sy[m][x]
               q == sy'[m][x]
           IN  (q # p /\ q.pc # "idle" /\ Incomplete(q)) =>
                   /\ store' = store /\ commits' = commits /\ remote' = remote
                   /\ ~Requested(q)
                   /\ q.pc = "done" \/ (p.pc = "idle" /\ q.op \in {"pull", "push"})
                   /\ q.pc = "done" => q.result = 1
      ]_vars

\* The command has failed on a machine without store, the bucket being the
\* empty string, and no store was created.
C22_Witness ==
    \E m \in Machines :
        LET p == sy[m].fg
        IN  /\ p.op = "sync" /\ p.pc = "done" /\ p.result = 1
            /\ p.cfg["bucket"] = "empty"
            /\ ~is_claude_repo_initialized(store[m])

\* pull_from_remote on its own has failed on its configuration check.
C22_WitnessPull ==
    /\ sy["A"].fg.op = "pull" /\ sy["A"].fg.pc = "done"
    /\ sy["A"].fg.why = "config" /\ sy["A"].fg.result = 1

-----------------------------------------------------------------------------
(***************************************************************************)
(* The background push.                                                    *)
(***************************************************************************)
\* C23: a push started by push_to_remote_async is not waited for and is
\* detached from the command that started it: the end of that command never
\* stops it, so it runs until push_to_remote returns.
C23_PushOutlivesCommand ==
    \A m \in Machines : sy[m].bg.pc # "killed"

-----------------------------------------------------------------------------
(***************************************************************************)
(* The ancestor walk against breadth-first search.                         *)
(***************************************************************************)
\* The commits of g in breadth-first order from the commits of queue, each
\* once, parents in the order the primary project lists them.
RECURSIVE BreadthFirst(_, _, _)
BreadthFirst(g, queue, seen) ==
    IF queue = <<>> THEN <<>>
    ELSE LET c == Head(queue)
             fresh == SelectSeq(g[c], LAMBDA a : a \notin seen)
             once  == IF Len(fresh) = 2 /\ fresh[1] = fresh[2] THEN <<fresh[1]>> ELSE fresh
         IN  <<c>> \o BreadthFirst(g, Tail(queue) \o once, seen \cup SeqToSet(once))

\* The least number of parent edges from the commits of frontier to c, n
\* being that of the frontier; -1 when c is no ancestor.
RECURSIVE Edges(_, _, _, _, _)
Edges(g, frontier, seen, n, c) ==
    IF c \in frontier THEN n
    ELSE LET next == UNION {SeqToSet(g[a]) : a \in frontier} \ (seen \cup frontier)
         IN  IF next = {} THEN -1 ELSE Edges(g, next, seen \cup frontier, n + 1, c)

\* The first max_depth commits of the breadth-first order from main_sha.
Examined ==
    LET order == BreadthFirst(primary, <<walk.main_sha>>, {walk.main_sha})
    IN  SubSeq(order, 1, IF Len(order) < walk.max_depth THEN Len(order) ELSE walk.max_depth)

Matching == {i \in 1..Len(Examined) : Direct(Examined[i]) # 0}

\* C24: the walk returns the direct match of the first commit, in
\* breadth-first order from main_sha, that has one among the first max_depth
\* commits of that order; no commit with a direct match is fewer parent edges
\* from main_sha than that commit; and it returns None exactly when none of
\* those commits has a direct match.
C24_NearestInBreadthFirstOrder ==
    walk.pc = "ret" =>
        /\ walk.result = 0 <=> Matching = {}
        /\ Matching # {} =>
               LET chosen == Examined[CHOOSE i \in Matching : \A j \in Matching : i <= j]
               IN  /\ walk.result = Direct(chosen)
                   /\ \A c \in Ancestry(primary, {walk.main_sha}) :
                          Direct(c) # 0 =>
                              Edges(primary, {walk.main_sha}, {}, 0, c)
                                  >= Edges(primary, {walk.main_sha}, {}, 0, chosen)

\* The walk has returned the match of a commit two edges up a history with a
\* merge commit.
C24_Witness ==
    /\ walk.pc = "ret" /\ walk.result # 0
    /\ Len(walk.queried) >= 3
    /\ \E c \in History : Len(primary[c]) = 2

\* C25 as stated: the queue of the walk never holds a commit that is already
\* in the visited set.
C25_QueueHoldsNoVisited ==
    walk.pc = "loop" =>
        \A i \in 1..Len(walk.to_check) : walk.to_check[i] \notin walk.visited

\* The loop is about to take a commit from the queue.
Taking == walk.pc = "loop" /\ walk.to_check # <<>> /\ walk.depth < walk.max_depth

\* C25: a commit already visited can be queued again, through a second
\* parent edge, but when the loop takes it from the queue it only drops it:
\* it is not looked up, its parents are not queued, it does not count towards
\* max_depth, and the walk goes on.
C25_VisitedIsDropped ==
    [][Taking /\ Head(walk.to_check) \in walk.visited =>
           walk' = [walk EXCEPT !.to_check = Tail(@)]
      ]_vars

\* The merge base of a diamond is at the head of the queue a second time.
C25_Witness ==
    /\ Taking /\ Head(walk.to_check) \in walk.visited
    /\ Cardinality({b \in walk.visited :
                        Head(walk.to_check) \in SeqToSet(primary[b])}) > 1

-----------------------------------------------------------------------------
(***************************************************************************)
(* What a checkout event leaves alone.                                     *)
(***************************************************************************)
\* C26: no step of a checkout call, on whichever path the call takes,
\* changes a branch ref of the store other than the one named after the
\* primary project's current branch, and none changes or removes a commit
\* the store already has.
C26_OnlyTheNamedBranchMoves ==
    [][ck.pc # "idle" =>
           /\ \A b \in BranchNames :
                  b # ck.branch => store'["A"].br[b] = store["A"].br[b]
           /\ Len(commits') >= Len(commits)
           /\ \A i \in 1..Len(commits) : commits'[i] = commits[i]
      ]_vars

\* A call has moved the branch it was called for while the store has another
\* branch.
C26_Witness ==
    /\ ck.pc = "done" /\ ck.out \in Synced
    /\ store["A"].br[ck.branch] # ck.pre.br[ck.branch]
    /\ \E b \in BranchNames : b # ck.branch /\ ck.pre.br[b] # 0

-----------------------------------------------------------------------------
(***************************************************************************)
(* A pull that fails.                                                      *)
(***************************************************************************)
\* C27: when pull_from_remote has returned failure, the store is as it was
\* when the call began: branch refs, checked-out commit and working tree,
\* also when the download worked and the fetch or the merge failed.
C27_FailedPullLeavesStore ==
    \A m \in Machines :
        sy[m].fg.pulled = "no" => store[m] = sy[m].fg.pre

-----------------------------------------------------------------------------
(***************************************************************************)
(* The remote object as a backup.                                          *)
(***************************************************************************)
\* The commits a bundle holds: those its branch refs reach.
BundleCommits(cs, bundle) ==
    IF ~bundle.exists THEN {}
    ELSE Reach(cs, {bundle.br[b] : b \in BranchNames} \ {0})

\* C28: when sync_with_remote has returned success, by its pull or by its
\* fallback push, every commit the branch refs of the store reach is in the
\* remote bundle.
C28_RemoteIsCompleteBackup ==
    \A m \in Machines :
        LET p == sy[m].fg
        IN  p.op = "sync" /\ p.pc = "done" /\ p.result = 0 =>
                Reach(commits, BranchTips(store[m])) \subseteq BundleCommits(commits, remote)

-----------------------------------------------------------------------------
(***************************************************************************)
(* A bootstrap that fails.                                                 *)
(***************************************************************************)
\* C29: when the pull of a bootstrap has failed, the store is not
\* initialized, so that the next cc-sync is a bootstrap again.
C29_FailedBootstrapLeavesNoStore ==
    \A m \in Machines :
        LET p == sy[m].fg
        IN  p.op = "boot" /\ p.pc = "done" /\ p.pulled = "no" =>
                ~is_claude_repo_initialized(store[m])

=============================================================================
